---- MODULE Spec2Model ----
(***************************************************************************)
(* A model of mhg_dl_rs (src/src/main.rs): the per-chapter pipeline        *)
(* download_chapter -> get_chapter -> download_images -> compress_chapter, *)
(* the driver loop of main, and the pure function unpack_packed.           *)
(*                                                                         *)
(* Strings are sequences of one-character strings, so that formatting      *)
(* (zero padding, ".part" suffixes) and parsing (the numeric sort key) are *)
(* computed the way the code computes them.                                *)
(*                                                                         *)
(* Three specifications share the module:                                  *)
(*   Spec       one chapter of the catalog, processed by download_chapter  *)
(*              over several runs of the program (a run may be killed at   *)
(*              any step and the program started again);                   *)
(*   SpecMain   the driver loop of main over the selected chapters;        *)
(*   SpecUnpack unpack_packed over bounded inputs.                         *)
(***************************************************************************)
EXTENDS Integers, Sequences, FiniteSets, TLC

VARIABLES
    \* ---- Spec: the server's chapter and the command line ----
    files,      \* chap.files: the manifest's file names, in page order
    slE,        \* the JSON type of chap.sl.e: "string", "number" or "null"
    delay,      \* self.delay, a Duration (in ticks, see FromMillis)
    \* ---- Spec: the filesystem under <output_dir>/<title>/ ----
    zip,        \* the file at zip_path
    dirExists,  \* whether chapter_dir exists
    dir,        \* chapter_dir: file name -> [src, bytes]
    \* ---- Spec: the position of the running process ----
    pc,         \* the statement download_chapter is at
    i,          \* the loop index of download_images
    resp,       \* the response being copied: its declared content length
    paths,      \* compress_chapter's sorted list, the part not yet written
    ret,        \* what download_chapter returned
    run,        \* the number of the current run of the program
    \* ---- Spec: what the current call has done so far ----
    requests,   \* the manifest indices an image GET was sent for, in order
    pageReqs,   \* the number of chapter-page GETs
    failedAt,   \* the index whose request failed, or NoIndex
    sleptAfter, \* the indices that were followed by a sleep
    lastSleep,  \* the duration of the sleep that has just ended, or NoSleep
    dir0,       \* chapter_dir as it was when the call started
    \* ---- SpecMain: the driver loop of main ----
    chapters,   \* comic.chapters.len()
    archived,   \* archived[k]: a file exists at the archive path of chapter k
    selection,  \* what prompt_for_chapters returned
    ranges,     \* the iterator over the selection: what is still to come
    cur,        \* the index taken by ranges.next(), or NoIndex
    mpc,        \* the statement main is at
    attempted,  \* the indices download_chapter was called with, in order
    reported,   \* the indices whose failure was printed
    delayed,    \* the indices that were followed by the 5 second sleep
    url,        \* args.url
    comicId,    \* what parse_id returned
    page,       \* what the site answers to the listing request
    catalog,    \* comic.chapters
    title,      \* comic.title
    mainRequests, \* the requests main has caused, in order
    prompted,   \* prompt_for_chapters has been called
    exit,       \* what main returned
    chaptersCount, \* prompt_for_chapters: chapters_count
    input,      \* the line read last, trimmed
    reads,      \* how many lines have been read
    ppc,        \* the statement prompt_for_chapters is at
    indices,    \* what prompt_for_chapters returned
    comicTitle, \* download_chapter: self.title
    chapterName, \* the name of self.chapters[index]
    bookSafe,   \* book_safe
    chapSafe,   \* chap_safe
    zipPath,    \* zip_path, as its components
    chapterDir, \* chapter_dir, as its components
    spc,        \* the statement the head of download_chapter is at
    otherName,  \* the name of another chapter of self.chapters
    earlier,   \* the chapters archived by earlier calls: "own", "other"
    disk,       \* the archives on disk, as resolved paths
    skipped,    \* the call returned at "already exists, skipping"
    \* ---- SpecUnpack: one call of unpack_packed ----
    radix,      \* the argument a
    dictSize,   \* the argument c
    data,       \* the payload tokens
    frame,      \* the packed script body
    json,       \* what the substituted frame holds for RE_JSON and serde
    upc,        \* the statement unpack_packed is at
    todo,       \* the number of indices the dictionary loop has still to do
    dmap,       \* the dictionary: key -> value
    js,         \* the substituted frame, or NoText
    json_str,   \* the span RE_JSON captured, or NoText
    result      \* what unpack_packed returned

chapterVars == <<files, slE, delay, zip, dirExists, dir, pc, i, resp, paths, ret,
                 run, requests, pageReqs, failedAt, sleptAfter, lastSleep, dir0>>

mainCore ==
    <<chapters, archived, selection, ranges, cur, mpc, attempted, reported, delayed,
      url, comicId, page, catalog, title, mainRequests, prompted, exit>>

promptVars == <<chaptersCount, input, reads, ppc, indices>>

pathVars ==
    <<comicTitle, chapterName, bookSafe, chapSafe, zipPath, chapterDir, spc,
      otherName, earlier, disk, skipped>>

mainVars == <<mainCore, promptVars, pathVars>>

unpackVars ==
    <<radix, dictSize, data, frame, json, upc, todo, dmap, js, json_str, result>>

vars == <<chapterVars, mainVars, unpackVars>>

----------------------------------------------------------------------------
(* Bounds of the model.                                                    *)

MaxFiles == 3       \* manifests of 0..MaxFiles files are all explored
LongLen == 11       \* one longer manifest, so that indices 9 and 10 occur
MaxRuns == 2        \* runs of the program on the same output directory
MaxDelayMs == 1     \* --delay-ms ranges over 0..MaxDelayMs
BodyLen == 2        \* bytes of every image body
MaxPerm == 4        \* directories up to this size are enumerated in every order
MaxTitle == 2       \* comic titles of at most MaxTitle characters
MaxLine == 3        \* lines of at most MaxLine characters are all read
MaxReads == 2       \* lines read by one call of prompt_for_chapters
MaxChapters == 2    \* the catalog has 0..MaxChapters chapters
MaxRadix == 64      \* unpack_packed is given the radixes 0..MaxRadix
MaxDict == 3        \* dictionary_size of a chapter page ranges over 0..MaxDict
MaxData == 3        \* number of payload tokens ranges over 1..MaxData

\* DIGITS.len(), the size of the supported alphabet.
AlphabetSize == 62
TestCatalogSize == 10  \* the catalog size of the tests of prompt_for_chapters

\* std::usize::MAX, the sort key of a name without a numeric prefix. TLC's
\* integers are 32 bits wide: the largest of them stands for it, above every
\* index the model reaches.
UsizeMax == 2147483647

NoIndex == -1
NoId == -1          \* parse_id returned None
NoSleep == -1
NoLen == -1         \* content_length() = None
NoText == <<"NoText">>

----------------------------------------------------------------------------
(* Decimal formatting and parsing.                                         *)

DecChars == <<"0", "1", "2", "3", "4", "5", "6", "7", "8", "9">>

RECURSIVE DecStr(_)
\* format!("{}", n) of an unsigned integer
DecStr(n) ==
    IF n < 10 THEN <<DecChars[n + 1]>>
    ELSE DecStr(n \div 10) \o <<DecChars[(n % 10) + 1]>>

\* (len as f64).log10().floor() as usize + 1; log10(0) is -inf and the cast
\* saturates at 0.
Width(len) == IF len = 0 THEN 1 ELSE Len(DecStr(len))

RECURSIVE Zeros(_)
Zeros(k) == IF k <= 0 THEN <<>> ELSE <<"0">> \o Zeros(k - 1)

\* format!("{:0width$}", n): zero padding to at least width characters
FormatIndex(n, width) == Zeros(width - Len(DecStr(n))) \o DecStr(n)

IsDigit(ch) == \E d \in 1..10 : DecChars[d] = ch

DigitVal(ch) == (CHOOSE d \in 1..10 : DecChars[d] = ch) - 1

RECURSIVE ParseDec(_)
ParseDec(s) == IF s = <<>> THEN 0 ELSE 10 * ParseDec(SubSeq(s, 1, Len(s) - 1)) + DigitVal(s[Len(s)])

\* s.parse::<usize>().ok(): a non-empty string of decimal digits
ParsesAsUsize(s) == s # <<>> /\ \A k \in 1..Len(s) : IsDigit(s[k])

RECURSIVE SplitFirst(_)
\* s.split('_').next(): the part before the first underscore
SplitFirst(s) ==
    IF s = <<>> \/ Head(s) = "_" THEN <<>> ELSE <<Head(s)>> \o SplitFirst(Tail(s))

RECURSIVE SeqsUpTo(_, _)
\* the sequences over S of length at most n
SeqsUpTo(S, n) ==
    IF n = 0 THEN {<<>>}
    ELSE SeqsUpTo(S, n - 1) \cup {Append(q, x) : q \in SeqsUpTo(S, n - 1), x \in S}

----------------------------------------------------------------------------
(* File names of download_images.                                          *)

\* The k-th (0-based) file name the server lists: pairwise distinct names,
\* each with an underscore and digits of its own.
PageName(k) == <<"p", "_">> \o DecStr(k)

Manifest(n) == [k \in 1..n |-> PageName(k - 1)]

Manifests == {Manifest(n) : n \in 0..MaxFiles}

\* and one manifest long enough for the indices 9 and 10
LongManifests == Manifests \cup {Manifest(LongLen)}

\* chapter_dir.join(format!("{:0width$}_{}", i, file, width = width))
DstName(idx, file, width) == FormatIndex(idx, width) \o <<"_">> \o file

\* PathBuf::from(format!("{}.part", dst.display()))
PartName(dst) == dst \o <<".", "p", "a", "r", "t">>

Dst(idx) == DstName(idx, files[idx + 1], Width(Len(files)))

IsPartName(name) ==
    Len(name) >= 5 /\ SubSeq(name, Len(name) - 4, Len(name)) = <<".", "p", "a", "r", "t">>

----------------------------------------------------------------------------
(* The sort of compress_chapter.                                           *)

\* the key of files.sort_by_key
SortKey(name) ==
    IF ParsesAsUsize(SplitFirst(name)) THEN ParseDec(SplitFirst(name)) ELSE UsizeMax

\* x goes behind every element whose key is not greater: the sort is stable
InsertByKey(sorted, x) ==
    LET n == Cardinality({k \in 1..Len(sorted) : SortKey(sorted[k]) <= SortKey(x)})
    IN  SubSeq(sorted, 1, n) \o <<x>> \o SubSeq(sorted, n + 1, Len(sorted))

RECURSIVE SortByKey(_)
SortByKey(s) ==
    IF s = <<>> THEN <<>>
    ELSE InsertByKey(SortByKey(SubSeq(s, 1, Len(s) - 1)), s[Len(s)])

RECURSIVE SeqOfSet(_)
SeqOfSet(S) ==
    IF S = {} THEN <<>>
    ELSE LET x == CHOOSE y \in S : TRUE IN <<x>> \o SeqOfSet(S \ {x})

Reverse(s) == [k \in 1..Len(s) |-> s[Len(s) + 1 - k]]

Rotate(s, r) == [k \in 1..Len(s) |-> s[((k - 1 + r) % Len(s)) + 1]]

\* The orders fs::read_dir may list the names S in: every order of a small
\* directory; of a larger one, the rotations of one order and of its reverse.
DirOrders(S) ==
    IF Cardinality(S) <= MaxPerm
    THEN {f \in [1..Cardinality(S) -> S] : \A a, b \in 1..Cardinality(S) : f[a] = f[b] => a = b}
    ELSE {Rotate(SeqOfSet(S), r) : r \in 0..(Cardinality(S) - 1)}
         \cup {Rotate(Reverse(SeqOfSet(S)), r) : r \in 0..(Cardinality(S) - 1)}

----------------------------------------------------------------------------
(* unpack_packed: the key encoding and the dictionary loop.                *)

DIGITS ==
    <<"0", "1", "2", "3", "4", "5", "6", "7", "8", "9",
      "a", "b", "c", "d", "e", "f", "g", "h", "i", "j", "k", "l", "m",
      "n", "o", "p", "q", "r", "s", "t", "u", "v", "w", "x", "y", "z",
      "A", "B", "C", "D", "E", "F", "G", "H", "I", "J", "K", "L", "M",
      "N", "O", "P", "Q", "R", "S", "T", "U", "V", "W", "X", "Y", "Z">>

\* \w without the underscore
IsWordCharNoUnderscore(ch) == \E d \in 1..Len(DIGITS) : DIGITS[d] = ch

\* \w: letters, digits and the underscore
IsWordChar(ch) == ch = "_" \/ \E d \in 1..Len(DIGITS) : DIGITS[d] = ch

RECURSIVE EncodeLoop(_, _)
\* while value > 0 { res.insert(0, DIGITS[value % base]); value /= base }
EncodeLoop(value, base) ==
    IF value = 0 THEN <<>>
    ELSE EncodeLoop(value \div base, base) \o <<DIGITS[(value % base) + 1]>>

\* the alphabet check is off by one
EncodeOffByOne(value, base) ==
    IF base > AlphabetSize + 1 THEN [kind |-> "err", key |-> <<>>]
    ELSE IF value = 0 THEN [kind |-> "ok", key |-> <<"0">>]
    ELSE IF base = 0 THEN [kind |-> "panic", key |-> <<>>]
    ELSE IF base = 1 THEN [kind |-> "hang", key |-> <<>>]
    ELSE [kind |-> "ok", key |-> EncodeLoop(value, base)]

\* only the last digit is kept
EncodeLastDigit(value, base) ==
    IF base > AlphabetSize THEN [kind |-> "err", key |-> <<>>]
    ELSE IF value = 0 THEN [kind |-> "ok", key |-> <<"0">>]
    ELSE IF base = 0 THEN [kind |-> "panic", key |-> <<>>]
    ELSE IF base = 1 THEN [kind |-> "hang", key |-> <<>>]
    ELSE [kind |-> "ok", key |-> <<DIGITS[(value % base) + 1]>>]

\* fn encode(value, base): Ok(key), Err (base above the alphabet), a panic
\* (value % 0 divides by zero) or no return at all (value /= 1 never reaches 0).
Encode(value, base) ==
    IF base > AlphabetSize THEN [kind |-> "err", key |-> <<>>]
    ELSE IF value = 0 THEN [kind |-> "ok", key |-> <<"0">>]
    ELSE IF base = 0 THEN [kind |-> "panic", key |-> <<>>]
    ELSE IF base = 1 THEN [kind |-> "hang", key |-> <<>>]
    ELSE [kind |-> "ok", key |-> EncodeLoop(value, base)]

RECURSIVE DictLoopKind(_, _)
\* for i in (0..c).rev() { let key = encode(i, a)?; ... }: how the loop ends
\* when k indices are still to be done (the next one is k - 1)
DictLoopKind(k, a) ==
    IF k = 0 THEN "ok"
    ELSE IF Encode(k - 1, a).kind # "ok" THEN Encode(k - 1, a).kind
    ELSE DictLoopKind(k - 1, a)

\* How unpack_packed ends on radix a, dictionary_size c, n payload tokens and
\* a frame that after substitution holds a manifest ("manifest"), no
\* parenthesized object ("nojson") or one that does not deserialize ("badjson").
UnpackKind(a, c, n, doc) ==
    IF c > n THEN "err"
    ELSE IF DictLoopKind(c, a) # "ok" THEN DictLoopKind(c, a)
    ELSE IF doc # "manifest" THEN "err"
    ELSE "ok"

\* The radixes a chapter page is given in the model: the degenerate ones, a
\* usual one, the largest supported one and the first unsupported one.
PageRadixes == {0, 1, 10, AlphabetSize, AlphabetSize + 1}

----------------------------------------------------------------------------
(* Spec: download_chapter on one chapter.                                  *)

\* Duration::from_millis. A tick is half a millisecond, so that delay / 2 and
\* delay * 3 / 2 are whole numbers of ticks, as they are whole numbers of
\* nanoseconds in the code.
FromMillis(ms) == 2 * ms

\* the upper end lacks its division
SleepRangeWide(d) == (d \div 2)..(d * 3)

\* self.delay / 2 ..= self.delay * 3 / 2
\* the range starts at zero
SleepRangeFromZero(d) == 0..((d * 3) \div 2)

SleepRange(d) == (d \div 2)..((d * 3) \div 2)

NoZip == [exists |-> FALSE, complete |-> FALSE, members |-> <<>>]

EmptyDir == [name \in {} |-> 0]

Ok(why) == [kind |-> "ok", why |-> why]

Err(why) == [kind |-> "err", why |-> why]

NoRet == [kind |-> "none", why |-> ""]

\* unpack_packed's Result: Ok(ChapterStruct), or Err(ContentParsing(message))
\* with the number the message names
NoResult == [kind |-> "none", why |-> "", arg |-> 0, e |-> ""]

\* Ok(ChapterStruct) whose sl.e is a JSON value of kind e
UnpackOk(e) == [kind |-> "ok", why |-> "", arg |-> 0, e |-> e]

UnpackErr(why, arg) == [kind |-> "err", why |-> why, arg |-> arg, e |-> ""]

WithFile(d, name, file) == [n \in DOMAIN d \cup {name} |-> IF n = name THEN file ELSE d[n]]

WithoutFile(d, name) == [n \in DOMAIN d \ {name} |-> d[n]]

\* fs::rename(from, to): to is replaced when it exists
Renamed(d, from, to) == WithFile(WithoutFile(d, from), to, d[from])

\* the call starts: nothing requested yet
CallStart ==
    /\ i = 0
    /\ resp = NoLen
    /\ paths = <<>>
    /\ ret = NoRet
    /\ requests = <<>>
    /\ pageReqs = 0
    /\ failedAt = NoIndex
    /\ sleptAfter = {}
    /\ lastSleep = NoSleep

\* prompt_for_chapters on its own is not part of this specification
PromptIdle ==
    /\ chaptersCount = 0
    /\ input = <<>>
    /\ reads = 0
    /\ ppc = "idle"
    /\ indices = <<>>

\* the driver loop is not part of this specification
MainCoreIdle ==
    /\ chapters = 0
    /\ archived = <<>>
    /\ selection = <<>>
    /\ ranges = <<>>
    /\ cur = NoIndex
    /\ mpc = "idle"
    /\ attempted = <<>>
    /\ reported = {}
    /\ delayed = {}
    /\ url = <<>>
    /\ comicId = NoId
    /\ page = [sent |-> FALSE, title |-> FALSE, anchors |-> <<>>]
    /\ catalog = <<>>
    /\ title = <<>>
    /\ mainRequests = <<>>
    /\ prompted = FALSE
    /\ exit = NoRet

\* the head of download_chapter on its own is not part of this specification
PathIdle ==
    /\ comicTitle = <<>>
    /\ chapterName = <<>>
    /\ bookSafe = <<>>
    /\ chapSafe = <<>>
    /\ zipPath = <<>>
    /\ chapterDir = <<>>
    /\ spc = "idle"
    /\ otherName = <<>>
    /\ earlier = {}
    /\ disk = {}
    /\ skipped = FALSE

MainIdle == PromptIdle /\ PathIdle /\ MainCoreIdle

\* unpack_packed is not part of this specification
UnpackIdle ==
    /\ radix = 0
    /\ dictSize = 0
    /\ data = <<>>
    /\ frame = <<>>
    /\ json = "invalid"
    /\ upc = "idle"
    /\ todo = 0
    /\ dmap = EmptyDir
    /\ js = NoText
    /\ json_str = NoText
    /\ result = NoResult

\* the state when download_chapter is called for the chapter in the first
\* run, its manifest being one of the set M
InitWith(M) ==
    /\ MainIdle
    /\ UnpackIdle
    /\ files \in M
    /\ slE \in {"string", "number", "null"}
    /\ delay \in {FromMillis(ms) : ms \in 0..MaxDelayMs}
    /\ zip = NoZip
    /\ dirExists = FALSE
    /\ dir = EmptyDir
    /\ dir0 = EmptyDir
    /\ pc = "start"
    /\ run = 1
    /\ CallStart

Init == InitWith(Manifests)

InitLong == InitWith(LongManifests)

\* download_chapter returns r
Return(r) ==
    /\ pc' = "done"
    /\ ret' = r

fsVars == <<zip, dirExists, dir>>

inputVars == <<files, slE, delay>>

logVars == <<requests, pageReqs, failedAt, sleptAfter, lastSleep, dir0>>

\* the staging directory is tested instead of the archive
ChapterDirExists == dirExists

\* if zip_path.exists() { return Ok(()) }
ZipPathExists == zip.exists

\* download_chapter up to the call of get_chapter
DownloadChapter ==
    /\ pc = "start"
    /\ IF ZipPathExists THEN Return(Ok("skipped")) ELSE pc' = "get_chapter" /\ ret' = ret
    /\ UNCHANGED <<inputVars, fsVars, i, resp, paths, run, logVars>>
    /\ UNCHANGED <<mainVars, unpackVars>>

\* get_chapter: the page request, the pattern, the numbers, the payload and
\* unpack_packed
GetChapter ==
    /\ pc = "get_chapter"
    /\ pageReqs' = pageReqs + 1
    /\ \/ \E why \in {"Reqwest", "no chapter data", "ParseInt", "base64"} : Return(Err(why))
       \/ \E a \in PageRadixes, c \in 0..MaxDict, n \in 1..MaxData,
             doc \in {"manifest", "nojson", "badjson"} :
            CASE UnpackKind(a, c, n, doc) = "ok" -> pc' = "create_dir" /\ ret' = ret
              [] UnpackKind(a, c, n, doc) = "err" -> Return(Err("unpack_packed"))
              [] UnpackKind(a, c, n, doc) = "panic" -> pc' = "panicked" /\ ret' = ret
              [] UnpackKind(a, c, n, doc) = "hang" -> pc' = "hung" /\ ret' = ret
    /\ UNCHANGED <<inputVars, fsVars, i, resp, paths, run, requests, failedAt,
                   sleptAfter, lastSleep, dir0>>
    /\ UNCHANGED <<mainVars, unpackVars>>

\* fs::create_dir_all(&chapter_dir)?
CreateDirAll ==
    /\ pc = "create_dir"
    /\ \/ /\ dirExists' = TRUE
          /\ dir0' = dir
          /\ pc' = "loop"
          /\ ret' = ret
       \/ /\ Return(Err("Io"))
          /\ UNCHANGED <<dirExists, dir0>>
    /\ UNCHANGED <<inputVars, zip, dir, i, resp, paths, run, requests, pageReqs,
                   failedAt, sleptAfter, lastSleep>>
    /\ UNCHANGED <<mainVars, unpackVars>>

\* match &chap.sl.e { String | Number => ..., _ => return Err }
SlEIsStringOrNumber == slE \in {"string", "number"}

\* the check for a staged file is missing
DstNeverExists == FALSE

\* if dst.exists() { bar.inc(1); continue; }
DstExists == Dst(i) \in DOMAIN dir

\* the request is retried with the next file instead of ending the call
OnRequestErrorGoOn(why) ==
    /\ i' = i + 1
    /\ UNCHANGED <<pc, ret>>

\* .send()? fails, or !resp.status().is_success(): download_images returns
\* the error and download_chapter passes it on
OnRequestError(why) ==
    /\ Return(Err(why))
    /\ i' = i

\* The head of the loop of download_images for index i: the loop ends, the
\* file is skipped, or its request is sent and the status checked.
LoopHead ==
    /\ pc = "loop"
    /\ IF i = Len(files)
       THEN /\ pc' = "zip_create"
            /\ UNCHANGED <<i, resp, ret, requests, failedAt>>
       ELSE IF DstExists
       THEN /\ i' = i + 1
            /\ UNCHANGED <<pc, resp, ret, requests, failedAt>>
       ELSE IF ~SlEIsStringOrNumber
       THEN /\ Return(Err("sl.e"))
            /\ UNCHANGED <<i, resp, requests, failedAt>>
       ELSE /\ requests' = Append(requests, i)
            /\ \/ /\ \E why \in {"Reqwest", "HTTP status"} : OnRequestError(why)
                  /\ failedAt' = i
                  /\ resp' = resp
               \/ /\ \E declared \in {NoLen} \cup ((BodyLen - 1)..(BodyLen + 1)) :
                        resp' = declared
                  /\ pc' = "create_part"
                  /\ UNCHANGED <<i, ret, failedAt>>
    /\ lastSleep' = NoSleep
    /\ UNCHANGED <<inputVars, fsVars, paths, run, pageReqs, sleptAfter, dir0>>
    /\ UNCHANGED <<mainVars, unpackVars>>

\* the body is written straight to the final name
WritePathIsDst == Dst(i)

\* the path the body is written to
WritePath == PartName(Dst(i))

\* let mut out = fs::File::create(&dst_part)?
CreatePart ==
    /\ pc = "create_part"
    /\ \/ /\ dir' = WithFile(dir, WritePath, [src |-> files[i + 1], bytes |-> 0])
          /\ pc' = "copy"
          /\ ret' = ret
       \/ /\ Return(Err("Io"))
          /\ dir' = dir
    /\ UNCHANGED <<inputVars, zip, dirExists, i, resp, paths, run, logVars>>
    /\ UNCHANGED <<mainVars, unpackVars>>

\* io::copy(&mut resp, &mut out): one more byte of the body is written
CopyByte ==
    /\ pc = "copy"
    /\ dir[WritePath].bytes < BodyLen
    /\ dir' = [dir EXCEPT ![WritePath].bytes = @ + 1]
    /\ UNCHANGED <<inputVars, zip, dirExists, pc, i, resp, paths, ret, run, logVars>>
    /\ UNCHANGED <<mainVars, unpackVars>>

\* io::copy(...)? fails: the connection or the disk
CopyFails ==
    /\ pc = "copy"
    /\ Return(Err("Io"))
    /\ UNCHANGED <<inputVars, fsVars, i, resp, paths, run, logVars>>
    /\ UNCHANGED <<mainVars, unpackVars>>

\* only a short transfer is taken for a mismatch
LengthShort(written) == resp # NoLen /\ written < resp

\* if let Some(expected) = content_length { if bytes_written != expected {..} }
LengthMismatch(written) == resp # NoLen /\ written # resp

\* io::copy returns Ok(bytes_written), then the length check
CopyDone ==
    /\ pc = "copy"
    /\ dir[WritePath].bytes = BodyLen
    /\ IF LengthMismatch(dir[WritePath].bytes)
       THEN Return(Err("Incomplete download"))
       ELSE pc' = "rename" /\ ret' = ret
    /\ UNCHANGED <<inputVars, fsVars, i, resp, paths, run, logVars>>
    /\ UNCHANGED <<mainVars, unpackVars>>

\* fs::rename(&dst_part, &dst)?; bar.inc(1); thread::sleep(random_range(..))
RenameAndSleep ==
    /\ pc = "rename"
    /\ \/ /\ dir' = Renamed(dir, WritePath, Dst(i))
          /\ \E d \in SleepRange(delay) : lastSleep' = d
          /\ sleptAfter' = sleptAfter \cup {i}
          /\ i' = i + 1
          /\ pc' = "loop"
          /\ ret' = ret
       \/ /\ Return(Err("Io"))
          /\ UNCHANGED <<dir, lastSleep, sleptAfter, i>>
    /\ UNCHANGED <<inputVars, zip, dirExists, resp, paths, run, requests, pageReqs,
                   failedAt, dir0>>
    /\ UNCHANGED <<mainVars, unpackVars>>

\* the sort is missing: the archive follows read_dir's order
UnsortedPaths(order) == order

\* the files compress_chapter writes, in the order it writes them:
\* read_dir's order, sorted by the key
SortedPaths(order) == SortByKey(order)

\* let zip_file = fs::File::create(&zip_path)?: the archive file is created
\* (or truncated) at its final path before anything is written to it
ZipCreate ==
    /\ pc = "zip_create"
    /\ \/ /\ zip' = [exists |-> TRUE, complete |-> FALSE, members |-> <<>>]
          /\ pc' = "read_dir"
          /\ ret' = ret
       \/ /\ Return(Err("Io"))
          /\ zip' = zip
    /\ UNCHANGED <<inputVars, dirExists, dir, i, resp, paths, run, logVars>>
    /\ UNCHANGED <<mainVars, unpackVars>>

\* fs::read_dir(..)? ... .collect(); files.sort_by_key(..)
ReadDirAndSort ==
    /\ pc = "read_dir"
    /\ \/ /\ \E order \in DirOrders(DOMAIN dir) : paths' = SortedPaths(order)
          /\ pc' = "zip_write"
          /\ ret' = ret
       \/ /\ Return(Err("Io"))
          /\ paths' = paths
    /\ UNCHANGED <<inputVars, fsVars, i, resp, run, logVars>>
    /\ UNCHANGED <<mainVars, unpackVars>>

\* zip.start_file(name, options)?; File::open(&path)?; io::copy(..)?
ZipWriteFile ==
    /\ pc = "zip_write"
    /\ paths # <<>>
    /\ \/ /\ zip' = [zip EXCEPT !.members =
                        Append(@, [name |-> Head(paths),
                                   src |-> dir[Head(paths)].src,
                                   bytes |-> dir[Head(paths)].bytes])]
          /\ paths' = Tail(paths)
          /\ UNCHANGED <<pc, ret>>
       \/ /\ \E why \in {"Zip", "Io"} : Return(Err(why))
          /\ UNCHANGED <<zip, paths>>
    /\ UNCHANGED <<inputVars, dirExists, dir, i, resp, run, logVars>>
    /\ UNCHANGED <<mainVars, unpackVars>>

\* zip.finish()?
ZipFinish ==
    /\ pc = "zip_write"
    /\ paths = <<>>
    /\ \/ /\ zip' = [zip EXCEPT !.complete = TRUE]
          /\ pc' = "remove_dir"
          /\ ret' = ret
       \/ /\ Return(Err("Zip"))
          /\ zip' = zip
    /\ UNCHANGED <<inputVars, dirExists, dir, i, resp, paths, run, logVars>>
    /\ UNCHANGED <<mainVars, unpackVars>>

\* fs::remove_dir_all(&chapter_dir)?; then bar.finish(); Ok(())
RemoveDirAll ==
    /\ pc = "remove_dir"
    /\ \/ /\ dirExists' = FALSE
          /\ dir' = EmptyDir
          /\ Return(Ok("archived"))
       \/ /\ Return(Err("Io"))
          /\ UNCHANGED <<dirExists, dir>>
    /\ UNCHANGED <<inputVars, zip, i, resp, paths, run, logVars>>
    /\ UNCHANGED <<mainVars, unpackVars>>

Running ==
    pc \in {"start", "get_chapter", "create_dir", "loop", "create_part", "copy",
            "rename", "zip_create", "read_dir", "zip_write", "remove_dir"}

\* The process is killed: what is on disk stays as it is, what the process
\* held in memory is gone.
Kill ==
    /\ Running
    /\ pc' = "killed"
    /\ i' = 0
    /\ resp' = NoLen
    /\ paths' = <<>>
    /\ ret' = NoRet
    /\ requests' = <<>>
    /\ pageReqs' = 0
    /\ failedAt' = NoIndex
    /\ sleptAfter' = {}
    /\ lastSleep' = NoSleep
    /\ dir0' = EmptyDir
    /\ UNCHANGED <<inputVars, fsVars, run>>
    /\ UNCHANGED <<mainVars, unpackVars>>

\* The program is started again on the same output directory and the same
\* chapter is selected.
RunAgain ==
    /\ pc \in {"done", "killed", "panicked", "hung"}
    /\ run < MaxRuns
    /\ run' = run + 1
    /\ pc' = "start"
    /\ dir0' = dir
    /\ i' = 0
    /\ resp' = NoLen
    /\ paths' = <<>>
    /\ ret' = NoRet
    /\ requests' = <<>>
    /\ pageReqs' = 0
    /\ failedAt' = NoIndex
    /\ sleptAfter' = {}
    /\ lastSleep' = NoSleep
    /\ UNCHANGED <<inputVars, fsVars>>
    /\ UNCHANGED <<mainVars, unpackVars>>

Next ==
    \/ DownloadChapter
    \/ GetChapter
    \/ CreateDirAll
    \/ LoopHead
    \/ CreatePart
    \/ CopyByte
    \/ CopyFails
    \/ CopyDone
    \/ RenameAndSleep
    \/ ZipCreate
    \/ ReadDirAndSort
    \/ ZipWriteFile
    \/ ZipFinish
    \/ RemoveDirAll
    \/ Kill
    \/ RunAgain

Spec == Init /\ [][Next]_vars

\* Spec with the long manifest among the chapters
SpecLong == InitLong /\ [][Next]_vars

----------------------------------------------------------------------------
(* SpecMain: the driver loop of main. download_chapter is one step here;   *)
(* of the filesystem only the existence of each archive is kept.           *)

\* download_chapter is not part of this specification
ChapterIdle ==
    /\ files = <<>>
    /\ slE = "string"
    /\ delay = 0
    /\ zip = NoZip
    /\ dirExists = FALSE
    /\ dir = EmptyDir
    /\ dir0 = EmptyDir
    /\ pc = "idle"
    /\ run = 1
    /\ CallStart

\* the literal parts of RE_ID
Http == <<"h", "t", "t", "p">>

SchemeEnd == <<":", "/", "/">>

Domain == <<"m", "a", "n", "h", "u", "a", "g", "u", "i", ".", "c", "o", "m">>

ComicPath == <<"/", "c", "o", "m", "i", "c", "/">>

HasPrefix(s, p) == Len(s) >= Len(p) /\ SubSeq(s, 1, Len(p)) = p

Drop(s, n) == SubSeq(s, n + 1, Len(s))

\* https?:// at the start of s: what follows it, or nothing
AfterScheme(s) ==
    IF HasPrefix(s, Http \o <<"s">> \o SchemeEnd)
    THEN {Drop(s, Len(Http) + 1 + Len(SchemeEnd))}
    ELSE IF HasPrefix(s, Http \o SchemeEnd)
    THEN {Drop(s, Len(Http) + Len(SchemeEnd))}
    ELSE {}

\* (?:[\w\.]+\.)? at the start of s: s itself, and what follows each
\* non-empty run of word characters and dots that ends with a dot
AfterSubdomain(s) ==
    {s} \cup {Drop(s, n) : n \in {m \in 2..Len(s) :
                 /\ s[m] = "."
                 /\ \A q \in 1..m : IsWordChar(s[q]) \/ s[q] = "."}}

\* (?:https?://(?:[\w\.]+\.)?manhuagui\.com/comic/)? at the start of s: what
\* follows the group where it matches, and s itself (the group is optional)
AfterUrlPrefix(s) ==
    {Drop(t, Len(Domain \o ComicPath)) :
        t \in {u \in UNION {AfterSubdomain(r) : r \in AfterScheme(s)} :
                  HasPrefix(u, Domain \o ComicPath)}}
    \cup {s}

RECURSIVE LeadingDigits(_)
\* (\d+) is greedy: the digits s starts with
LeadingDigits(s) ==
    IF s = <<>> \/ ~IsDigit(Head(s)) THEN <<>> ELSE <<Head(s)>> \o LeadingDigits(Tail(s))

RECURSIVE StripZeros(_)
StripZeros(s) == IF s # <<>> /\ Head(s) = "0" THEN StripZeros(Tail(s)) ELSE s

RECURSIVE DigitsLeq(_, _)
\* a <= b for digit strings of the same length
DigitsLeq(a, b) ==
    IF a = <<>> THEN TRUE
    ELSE IF DigitVal(Head(a)) # DigitVal(Head(b)) THEN DigitVal(Head(a)) < DigitVal(Head(b))
    ELSE DigitsLeq(Tail(a), Tail(b))

\* usize::MAX of a 64-bit target, in decimal
UsizeMaxDigits ==
    <<"1", "8", "4", "4", "6", "7", "4", "4", "0", "7",
      "3", "7", "0", "9", "5", "5", "1", "6", "1", "5">>

\* str::parse::<usize>() succeeds on digits: the value fits a usize
FitsUsize(digits) ==
    LET d == StripZeros(digits)
        top == UsizeMaxDigits
    IN  Len(d) < Len(top) \/ (Len(d) = Len(top) /\ DigitsLeq(d, top))

\* fn parse_id(s): the captured digits as a usize, NoId for None
parse_id(s) ==
    LET caps == {LeadingDigits(t) : t \in AfterUrlPrefix(s)} \ {<<>>}
    IN  IF caps = {} THEN NoId
        ELSE LET digits == CHOOSE c \in caps : TRUE
             IN  IF FitsUsize(digits) THEN ParseDec(digits) ELSE NoId

\* the inputs of the model: bare numbers, URLs of the site with and without a
\* subdomain, and inputs of other forms
Urls ==
    {<<"1", "2">>,
     <<"0", "7">>,
     <<>>,
     <<"a", "b">>,
     <<"1", "2", "a">>,
     <<"1", " ", "2">>,
     <<"9", "9", "9", "9", "9", "9", "9", "9", "9", "9",
       "9", "9", "9", "9", "9", "9", "9", "9", "9", "9">>,
     Http \o SchemeEnd \o Domain \o ComicPath \o <<"1", "2">>,
     Http \o <<"s">> \o SchemeEnd \o <<"w", "w", "w", ".">> \o Domain \o ComicPath \o <<"1", "2", "/">>,
     Http \o <<"s">> \o SchemeEnd \o <<"t", "w", ".">> \o Domain \o ComicPath,
     Http \o <<"s">> \o SchemeEnd \o <<"g", "o", "o", "g", "l", "e", ".", "c", "o", "m">> \o ComicPath \o <<"1", "2">>,
     Http \o <<"s">> \o SchemeEnd \o <<"x">> \o Domain \o ComicPath \o <<"1", "2">>}

ChapterIndices == 0..(chapters - 1)

RECURSIVE Ascending(_)
\* indices.sort(); indices.dedup(): the elements of S in ascending order
Ascending(S) ==
    IF S = {} THEN <<>>
    ELSE LET least == CHOOSE x \in S : \A y \in S : x <= y
         IN  <<least>> \o Ascending(S \ {least})

\* what an anchor of the listing page carries: both attributes, or one only
AnchorKinds == {"full", "notitle", "nohref"}

\* The answers of the site to the listing request: the request fails, or a
\* document with or without the title element and with some chapter anchors,
\* newest first.
Pages ==
    {[sent |-> FALSE, title |-> FALSE, anchors |-> <<>>]}
    \cup {[sent |-> TRUE, title |-> t, anchors |-> a] :
             t \in BOOLEAN, a \in SeqsUpTo(AnchorKinds, MaxChapters)}

\* the (title, href) of the k-th anchor in page order
AnchorEntry(k) == [name |-> <<"t">> \o DecStr(k), href |-> <<"h">> \o DecStr(k)]

RECURSIVE PushChaptersInPageOrder(_, _, _)
\* the loop goes over the anchors in page order
PushChaptersInPageOrder(anchors, k, acc) ==
    IF k = 0 THEN [kind |-> "ok", why |-> "", chapters |-> acc]
    ELSE LET at == Len(anchors) - k + 1
         IN  IF anchors[at] = "notitle"
             THEN [kind |-> "err", why |-> "Chapter title attribute not found", chapters |-> <<>>]
             ELSE IF anchors[at] = "nohref"
             THEN [kind |-> "err", why |-> "Chapter href attribute not found", chapters |-> <<>>]
             ELSE PushChaptersInPageOrder(anchors, k - 1, Append(acc, AnchorEntry(at)))

RECURSIVE PushChapters(_, _, _)
\* for element in elements.into_iter().rev() { ..? self.chapters.push(..) }:
\* the anchors k, k-1, .., 1 are still to come
PushChapters(anchors, k, acc) ==
    IF k = 0 THEN [kind |-> "ok", why |-> "", chapters |-> acc]
    ELSE IF anchors[k] = "notitle"
    THEN [kind |-> "err", why |-> "Chapter title attribute not found", chapters |-> <<>>]
    ELSE IF anchors[k] = "nohref"
    THEN [kind |-> "err", why |-> "Chapter href attribute not found", chapters |-> <<>>]
    ELSE PushChapters(anchors, k - 1, Append(acc, AnchorEntry(k)))

\* fn load_metadata: the chapter list, or the error
LoadMetadata(p) ==
    IF ~p.sent THEN [kind |-> "err", why |-> "Reqwest", chapters |-> <<>>]
    ELSE IF ~p.title THEN [kind |-> "err", why |-> "Could not find title", chapters |-> <<>>]
    ELSE PushChapters(p.anchors, Len(p.anchors), <<>>)

\* The state when main starts: the argument, what the site will answer, and
\* the archives earlier runs have left.
MainInit ==
    /\ ChapterIdle
    /\ UnpackIdle
    /\ PromptIdle
    /\ PathIdle
    /\ url \in Urls
    /\ page \in Pages
    /\ archived \in [0..(MaxChapters - 1) -> BOOLEAN]
    /\ chapters = 0
    /\ catalog = <<>>
    /\ title = <<>>
    /\ comicId = NoId
    /\ mainRequests = <<>>
    /\ prompted = FALSE
    /\ exit = NoRet
    /\ selection = <<>>
    /\ ranges = <<>>
    /\ cur = NoIndex
    /\ mpc = "parse"
    /\ attempted = <<>>
    /\ reported = {}
    /\ delayed = {}

mainInputs == <<url, page>>

loopVars == <<selection, ranges, cur, attempted, reported, delayed>>

comicVars == <<comicId, catalog, title, chapters>>

\* the text of the .book-title h1 element of the listing page
TitleText == <<"T", "i", "t", "l", "e">>

\* let id = parse_id(&args.url).ok_or(AppError::InvalidUrl)?
ParseId ==
    /\ mpc = "parse"
    /\ comicId' = parse_id(url)
    /\ IF parse_id(url) = NoId
       THEN /\ exit' = Err("InvalidUrl")
            /\ mpc' = "failed"
       ELSE /\ exit' = exit
            /\ mpc' = "new"
    /\ UNCHANGED <<mainInputs, loopVars, chapters, archived, catalog, title, mainRequests, prompted>>
    /\ UNCHANGED <<chapterVars, unpackVars, promptVars, pathVars>>

\* let comic = Comic::new(id, ..)?: the listing request, then the title and
\* the chapter list, or the error, which ends main
ComicNew ==
    /\ mpc = "new"
    /\ mainRequests' = Append(mainRequests, [what |-> "listing", id |-> comicId])
    /\ LET loaded == LoadMetadata(page)
       IN  IF loaded.kind = "err"
           THEN /\ exit' = Err(loaded.why)
                /\ mpc' = "failed"
                /\ UNCHANGED <<catalog, title, chapters>>
           ELSE /\ catalog' = loaded.chapters
                /\ title' = TitleText
                /\ chapters' = Len(loaded.chapters)
                /\ mpc' = "prompt"
                /\ exit' = exit
    /\ UNCHANGED <<mainInputs, loopVars, archived, comicId, prompted>>
    /\ UNCHANGED <<chapterVars, unpackVars, promptVars, pathVars>>

\* let mut ranges = prompt_for_chapters(comic.chapters.len())?.peekable():
\* sorted, deduplicated indices below the catalog size, or the I/O error of
\* the terminal, which ends main
PromptForChapters ==
    /\ mpc = "prompt"
    /\ prompted' = TRUE
    /\ \/ /\ \E chosen \in SUBSET ChapterIndices :
                /\ selection' = Ascending(chosen)
                /\ ranges' = Ascending(chosen)
          /\ mpc' = "next"
          /\ exit' = exit
       \/ /\ exit' = Err("Io")
          /\ mpc' = "failed"
          /\ UNCHANGED <<selection, ranges>>
    /\ UNCHANGED <<mainInputs, comicVars, archived, cur, attempted, reported, delayed,
                   mainRequests>>
    /\ UNCHANGED <<chapterVars, unpackVars, promptVars, pathVars>>

\* while let Some(idx) = ranges.next() { ... } Ok(())
MainNext ==
    /\ mpc = "next"
    /\ IF ranges = <<>>
       THEN /\ mpc' = "done"
            /\ exit' = Ok("")
            /\ UNCHANGED <<cur, ranges>>
       ELSE /\ cur' = Head(ranges)
            /\ ranges' = Tail(ranges)
            /\ mpc' = "download"
            /\ exit' = exit
    /\ UNCHANGED <<mainInputs, comicVars, archived, selection, attempted, reported, delayed,
                   mainRequests, prompted>>
    /\ UNCHANGED <<chapterVars, unpackVars, promptVars, pathVars>>

\* The ways one call of download_chapter ends, exists telling whether the
\* archive path exists when it starts: how the call ends, and whether a file
\* is at the archive path afterwards.
ChapterOutcomes(exists) ==
    IF exists THEN {[kind |-> "ok", zip |-> TRUE]}
    ELSE LET unpacked == {UnpackKind(a, c, n, doc) :
                             a \in PageRadixes, c \in 0..MaxDict, n \in 1..MaxData,
                             doc \in {"manifest", "nojson", "badjson"}}
         IN  \* get_chapter: the request, the pattern, the numbers, the payload
             {[kind |-> "err", zip |-> FALSE]}
             \* unpack_packed returns an error, panics or does not return
             \cup {[kind |-> u, zip |-> FALSE] : u \in unpacked \ {"ok"}}
             \* create_dir_all or download_images fails; File::create fails
             \cup {[kind |-> "err", zip |-> FALSE]}
             \* compress_chapter fails after File::create, or all is well
             \cup {[kind |-> "err", zip |-> TRUE], [kind |-> "ok", zip |-> TRUE]}

\* the 5 second sleep follows every chapter
MorePeekedAlways(rest) == TRUE

\* ranges.peek().is_some()
MorePeeked(rest) == rest # <<>>

\* if let Err(e) = comic.download_chapter(idx) { eprintln!(..) }
MainDownloadChapter ==
    /\ mpc = "download"
    /\ attempted' = Append(attempted, cur)
    /\ mainRequests' = IF archived[cur] THEN mainRequests
                       ELSE Append(mainRequests, [what |-> "chapter", id |-> cur])
    /\ \E o \in ChapterOutcomes(archived[cur]) :
          /\ archived' = [archived EXCEPT ![cur] = o.zip]
          /\ reported' = IF o.kind = "err" THEN reported \cup {cur} ELSE reported
          /\ mpc' = CASE o.kind = "panic" -> "panicked"
                      [] o.kind = "hang" -> "hung"
                      [] OTHER -> "peek"
    /\ UNCHANGED <<mainInputs, comicVars, selection, ranges, cur, delayed, prompted, exit>>
    /\ UNCHANGED <<chapterVars, unpackVars, promptVars, pathVars>>

\* if ranges.peek().is_some() { thread::sleep(Duration::from_secs(5)); }
MainDelay ==
    /\ mpc = "peek"
    /\ delayed' = IF MorePeeked(ranges) THEN delayed \cup {cur} ELSE delayed
    /\ mpc' = "next"
    /\ UNCHANGED <<mainInputs, comicVars, archived, selection, ranges, cur, attempted, reported,
                   mainRequests, prompted, exit>>
    /\ UNCHANGED <<chapterVars, unpackVars, promptVars, pathVars>>

MainStep ==
    \/ ParseId
    \/ ComicNew
    \/ PromptForChapters
    \/ MainNext
    \/ MainDownloadChapter
    \/ MainDelay

SpecMain == MainInit /\ [][MainStep]_vars

\* a bare decimal number
C14_BareNumber(s) == s # <<>> /\ \A k \in 1..Len(s) : IsDigit(s[k])

\* a URL of the site whose path begins /comic/<digits>
C14_ComicUrl(s) == \E t \in AfterUrlPrefix(s) \ {s} : LeadingDigits(t) # <<>>

\* C14: an input that is neither a bare decimal number nor a manhuagui.com
\* URL whose path begins /comic/<digits> gets None from parse_id, and main
\* fails with the invalid-reference error before any request is made.
C14_OnlyNumbersAndComicUrls ==
    (mpc # "parse" /\ ~C14_BareNumber(url) /\ ~C14_ComicUrl(url)) =>
        /\ comicId = NoId
        /\ mpc = "failed"
        /\ exit = Err("InvalidUrl")
        /\ mainRequests = <<>>

\* C15: from a listing page whose n chapter anchors all carry a title and an
\* href, load_metadata builds a chapter list of length n whose k-th entry
\* (from 0) is the (title, href) of the (n-1-k)-th anchor of the page: the
\* page order reversed, nothing lost or duplicated.
C15_ChaptersReversePageOrder ==
    LET n == Len(page.anchors)
    IN  (/\ mpc \notin {"parse", "new"}
         /\ comicId # NoId
         /\ page.sent /\ page.title
         /\ \A a \in 1..n : page.anchors[a] = "full") =>
            /\ Len(catalog) = n
            /\ chapters = n
            /\ \A k \in 0..(n - 1) : catalog[k + 1] = AnchorEntry((n - 1 - k) + 1)

\* a listing of at least two anchors has been loaded
C15_Witness ==
    /\ mpc = "prompt"
    /\ Len(page.anchors) >= 2
    /\ Len(catalog) = Len(page.anchors)

\* catalog resolution must fail on these inputs: the identifier is of
\* neither accepted form, or the listing is unreachable or incomplete
C16_Unresolvable ==
    \/ ~C14_BareNumber(url) /\ ~C14_ComicUrl(url)
    \/ ~page.sent
    \/ ~page.title
    \/ \E a \in 1..Len(page.anchors) : page.anchors[a] # "full"

\* C16: when the identifier is invalid, the listing request fails, the title
\* element is absent or an anchor lacks its title or href, the run ends with
\* an error: no prompt, no chapter-page or image request, no chapter
\* attempted (so no file or directory created), and no title, the id
\* included, ever stands in for the missing one.
C16_CatalogFailureIsFatal ==
    C16_Unresolvable =>
        /\ mpc \in {"parse", "new", "failed"}
        /\ mpc = "failed" => exit.kind = "err"
        /\ ~prompted
        /\ attempted = <<>>
        /\ \A r \in 1..Len(mainRequests) : mainRequests[r].what = "listing"
        /\ title = <<>>
        /\ catalog = <<>>

\* the k-th attempted chapter has been processed and the loop is past its
\* peek
C19_PastPeek(k) == k < Len(attempted) \/ mpc \in {"next", "download", "done"}

\* C19: the 5 second sleep follows a processed chapter exactly when a further
\* selected chapter remains, whether the chapter succeeded, was skipped or
\* failed; nothing follows the last one.
C19_DelayOnlyBetweenChapters ==
    /\ \A x \in delayed : \E k \in 1..Len(attempted) : attempted[k] = x /\ C19_PastPeek(k)
    /\ \A k \in 1..Len(attempted) :
          C19_PastPeek(k) => (attempted[k] \in delayed <=> k < Len(selection))

\* a run of two chapters has ended: the first failed and was followed by the
\* sleep, the second was not
C19_Witness ==
    /\ mpc = "done"
    /\ Len(selection) = 2
    /\ selection[1] \in reported
    /\ delayed = {selection[1]}

\* C7: whatever the outcomes of the chapters, the driver loop calls
\* download_chapter once for each selected index, in ascending order, and the
\* run then ends normally: no chapter keeps a later one from being attempted.
C7_ChapterFailureIsolation ==
    /\ Len(attempted) <= Len(selection)
    /\ attempted = SubSeq(selection, 1, Len(attempted))
    /\ mpc \in {"done", "panicked", "hung"} => (mpc = "done" /\ attempted = selection)

----------------------------------------------------------------------------
(* SpecPrompt: one call of prompt_for_chapters(chapters_count), reading    *)
(* lines until one is accepted.                                            *)

\* the characters of the lines of the model
LineChars == {"0", "1", "2", "9", ",", "-"}

\* the lines of the tests
Line_1to3_5 == <<"1", "-", "3", ",", "5">>

Line_5_3to4_3 == <<"5", ",", "3", "-", "4", ",", "3">>

Line_11 == <<"1", "1">>

Line_invalid == <<"i", "n", "v", "a", "l", "i", "d">>

Line_2_4 == <<"2", ",", "4">>

\* the lines read in the model, trimmed: every line of at most MaxLine
\* characters, the empty one included, and the lines of the tests
Lines ==
    SeqsUpTo(LineChars, MaxLine)
    \cup {Line_1to3_5, Line_5_3to4_3, Line_11, Line_invalid, Line_2_4}

\* the catalog sizes of the model
CatalogSizes == (0..MaxChapters) \cup {TestCatalogSize}

RECURSIVE SplitOn(_, _)
\* str::split(sep): the parts between the separators, empty ones included
SplitOn(s, sep) ==
    IF \A k \in 1..Len(s) : s[k] # sep THEN <<s>>
    ELSE LET at == CHOOSE k \in 1..Len(s) :
                       s[k] = sep /\ \A q \in 1..(k - 1) : s[q] # sep
         IN  <<SubSeq(s, 1, at - 1)>> \o SplitOn(Drop(s, at), sep)

\* str::parse::<u32>() succeeds: digits only (the numbers of the model are
\* far below u32::MAX)
ParsesAsU32(s) == s # <<>> /\ \A k \in 1..Len(s) : IsDigit(s[k])

RECURSIVE FromTo(_, _)
\* the numbers start, start + 1, .., end
FromTo(start, end) ==
    IF start > end THEN <<>> ELSE <<start>> \o FromTo(start + 1, end)

\* range_parser: one comma-separated part, a number or start-end with
\* start <= end
ParsePart(part) ==
    LET ends == SplitOn(part, "-")
    IN  IF Len(ends) = 1
        THEN IF ParsesAsU32(part)
             THEN [ok |-> TRUE, nums |-> <<ParseDec(part)>>]
             ELSE [ok |-> FALSE, nums |-> <<>>]
        ELSE IF Len(ends) = 2 /\ ParsesAsU32(ends[1]) /\ ParsesAsU32(ends[2])
                /\ ParseDec(ends[1]) <= ParseDec(ends[2])
        THEN [ok |-> TRUE, nums |-> FromTo(ParseDec(ends[1]), ParseDec(ends[2]))]
        ELSE [ok |-> FALSE, nums |-> <<>>]

RECURSIVE ParseParts(_)
ParseParts(parts) ==
    IF parts = <<>> THEN [ok |-> TRUE, nums |-> <<>>]
    ELSE LET first == ParsePart(Head(parts))
             rest == ParseParts(Tail(parts))
         IN  IF first.ok /\ rest.ok
             THEN [ok |-> TRUE, nums |-> first.nums \o rest.nums]
             ELSE [ok |-> FALSE, nums |-> <<>>]

\* range_parser::parse::<u32>(line): Ok(numbers in the order written) or Err
RangeParse(line) == ParseParts(SplitOn(line, ","))

RECURSIVE CheckedSubOne(_)
\* .filter_map(|n: u32| n.checked_sub(1)): n - 1 for n >= 1, 0 dropped
CheckedSubOne(nums) ==
    IF nums = <<>> THEN <<>>
    ELSE IF Head(nums) = 0 THEN CheckedSubOne(Tail(nums))
    ELSE <<Head(nums) - 1>> \o CheckedSubOne(Tail(nums))

RECURSIVE InsertNum(_, _)
InsertNum(n, sorted) ==
    IF sorted = <<>> \/ n <= Head(sorted) THEN <<n>> \o sorted
    ELSE <<Head(sorted)>> \o InsertNum(n, Tail(sorted))

RECURSIVE SortNums(_)
\* indices.sort()
SortNums(nums) ==
    IF nums = <<>> THEN <<>> ELSE InsertNum(Head(nums), SortNums(Tail(nums)))

\* duplicates are kept
DedupNothing(sorted) == sorted

RECURSIVE Dedup(_)
\* indices.dedup(): consecutive repeated elements removed
Dedup(sorted) ==
    IF Len(sorted) <= 1 THEN sorted
    ELSE IF sorted[1] = sorted[2] THEN Dedup(Tail(sorted))
    ELSE <<sorted[1]>> \o Dedup(Tail(sorted))

\* if let Some(&last_index) = indices.last() { if last_index >= chapters_count
OutOfBounds(sorted, count) == sorted # <<>> /\ sorted[Len(sorted)] >= count

PromptInit ==
    /\ ChapterIdle
    /\ UnpackIdle
    /\ MainCoreIdle
    /\ PathIdle
    /\ chaptersCount \in CatalogSizes
    /\ input = <<>>
    /\ reads = 0
    /\ ppc = "prompt"
    /\ indices = <<>>

\* print!(..); io::stdout().flush()?; io::stdin().read_line(&mut input)?
ReadLine ==
    /\ ppc = "prompt"
    /\ reads < MaxReads
    /\ reads' = reads + 1
    /\ \/ /\ \E line \in Lines : input' = line
          /\ ppc' = "read"
       \/ /\ ppc' = "ioerror"
          /\ input' = input
    /\ UNCHANGED <<chaptersCount, indices>>
    /\ UNCHANGED <<chapterVars, unpackVars, mainCore, pathVars>>

\* continue: the line is reported and dropped, the loop goes round
Reprompt ==
    /\ ppc' = "prompt"
    /\ input' = <<>>
    /\ indices' = indices

\* match range_parser::parse(input.trim()) { .. }: return the indices, or
\* report the line and go round the loop
ParseLine ==
    /\ ppc = "read"
    /\ LET parsed == RangeParse(input)
           sorted == Dedup(SortNums(CheckedSubOne(parsed.nums)))
       IN  IF ~parsed.ok THEN Reprompt
           ELSE IF OutOfBounds(sorted, chaptersCount) THEN Reprompt
           ELSE IF sorted = <<>> /\ input # <<>> THEN Reprompt
           ELSE ppc' = "returned" /\ indices' = sorted /\ input' = input
    /\ UNCHANGED <<chaptersCount, reads>>
    /\ UNCHANGED <<chapterVars, unpackVars, mainCore, pathVars>>

PromptStep ==
    \/ ReadLine
    \/ ParseLine

SpecPrompt == PromptInit /\ [][PromptStep]_vars

----------------------------------------------------------------------------
(* SpecPaths: the head of download_chapter, where the paths of a chapter   *)
(* are built from the comic title and the chapter name.                    *)

\* the character class without the pipe
IllegalCharsNoPipe == {"/", ":", "*", "?", "\"", "<", ">"}

\* RE_ILLEGAL_CHARS: [\/:*?"<>|]
IllegalChars == {"/", ":", "*", "?", "\"", "<", ">", "|"}

\* the characters of the titles of the model: the illegal ones, and a
\* letter, a backslash, a dot, a space and the underscore
TitleChars == {"/", ":", "*", "?", "\"", "<", ">", "|", "a", "\\", ".", " ", "_"}

\* the chapter names of the model
ChapterNames ==
    {<<"a">>,
     <<>>,
     <<".">>,
     <<".", ".">>,
     <<"a", ":", "1">>,
     <<"<", "a", ">", "|", "?">>,
     <<"/", "a", "*", "\"", "_">>}

RECURSIVE Sanitize(_)
\* RE_ILLEGAL_CHARS.replace_all(s, "_")
Sanitize(s) ==
    IF s = <<>> THEN <<>>
    ELSE <<IF Head(s) \in IllegalChars THEN "_" ELSE Head(s)>> \o Sanitize(Tail(s))

\* --output-dir
OutputDir == <<"D", "o", "w", "n", "l", "o", "a", "d", "s">>

ZipSuffix == <<".", "z", "i", "p">>

\* the names another chapter of the catalog has in the model: one that is
\* also a name of ChapterNames, and one that differs from a name of
\* ChapterNames in a replaced character only
OtherNames == {<<"a">>, <<"a", "_", "1">>}

RECURSIVE Resolve(_)
\* the place a path of these components names: an empty component and "."
\* name the directory itself, ".." names its parent
Resolve(path) ==
    IF path = <<>> THEN <<>>
    ELSE LET front == Resolve(SubSeq(path, 1, Len(path) - 1))
             last == path[Len(path)]
         IN  IF last = <<>> \/ last = <<".">> THEN front
             ELSE IF last = <<".", ".">>
                  THEN (IF front = <<>> THEN <<>> ELSE SubSeq(front, 1, Len(front) - 1))
                  ELSE Append(front, last)

\* place is d or lies below it
Within(place, d) == Len(d) <= Len(place) /\ SubSeq(place, 1, Len(d)) = d

\* book_dir.join(format!("{}.zip", chap_safe)) for a chapter of that name
ZipPathOf(t, name) == <<OutputDir, Sanitize(t), Sanitize(name) \o ZipSuffix>>

PathsInit ==
    /\ ChapterIdle
    /\ UnpackIdle
    /\ MainCoreIdle
    /\ PromptIdle
    /\ comicTitle \in SeqsUpTo(TitleChars, MaxTitle)
    /\ chapterName \in ChapterNames
    /\ otherName \in OtherNames
    /\ earlier \in SUBSET {"own", "other"}
    /\ disk = {Resolve(ZipPathOf(comicTitle, chapterName)) : w \in earlier \cap {"own"}}
                \cup {Resolve(ZipPathOf(comicTitle, otherName)) : w \in earlier \cap {"other"}}
    /\ skipped = FALSE
    /\ bookSafe = <<>>
    /\ chapSafe = <<>>
    /\ zipPath = <<>>
    /\ chapterDir = <<>>
    /\ spc = "book_safe"

pathInputs == <<comicTitle, chapterName, otherName, earlier>>

\* let book_safe = RE_ILLEGAL_CHARS.replace_all(&self.title, "_")
SanitizeTitle ==
    /\ spc = "book_safe"
    /\ bookSafe' = Sanitize(comicTitle)
    /\ spc' = "chap_safe"
    /\ UNCHANGED <<pathInputs, disk, skipped, chapSafe, zipPath, chapterDir>>
    /\ UNCHANGED <<chapterVars, unpackVars, mainCore, promptVars>>

\* let chap_safe = RE_ILLEGAL_CHARS.replace_all(&name, "_")
SanitizeName ==
    /\ spc = "chap_safe"
    /\ chapSafe' = Sanitize(chapterName)
    /\ spc' = "paths"
    /\ UNCHANGED <<pathInputs, disk, skipped, bookSafe, zipPath, chapterDir>>
    /\ UNCHANGED <<chapterVars, unpackVars, mainCore, promptVars>>

\* book_dir, zip_path and chapter_dir, joined from output_dir and the safe
\* names
BuildPaths ==
    /\ spc = "paths"
    /\ zipPath' = <<OutputDir, bookSafe, chapSafe \o ZipSuffix>>
    /\ chapterDir' = <<OutputDir, bookSafe, chapSafe>>
    /\ spc' = "built"
    /\ UNCHANGED <<pathInputs, disk, skipped, bookSafe, chapSafe>>
    /\ UNCHANGED <<chapterVars, unpackVars, mainCore, promptVars>>

\* if zip_path.exists() { println!(".. already exists, skipping."); return Ok(()) }
ExistsCheck ==
    /\ spc = "built"
    /\ IF Resolve(zipPath) \in disk
       THEN skipped' = TRUE /\ spc' = "done"
       ELSE skipped' = FALSE /\ spc' = "compress"
    /\ UNCHANGED <<pathInputs, disk, bookSafe, chapSafe, zipPath, chapterDir>>
    /\ UNCHANGED <<chapterVars, unpackVars, mainCore, promptVars>>

\* compress_chapter of a chapter whose pages are staged: File::create(zip_path),
\* the archive is written, then fs::remove_dir_all(chapter_dir)
CompressAndRemove ==
    /\ spc = "compress"
    /\ disk' = {place \in disk \cup {Resolve(zipPath)} :
                   ~Within(place, Resolve(chapterDir))}
    /\ spc' = "done"
    /\ UNCHANGED <<pathInputs, skipped, bookSafe, chapSafe, zipPath, chapterDir>>
    /\ UNCHANGED <<chapterVars, unpackVars, mainCore, promptVars>>

PathsStep ==
    \/ SanitizeTitle
    \/ SanitizeName
    \/ BuildPaths
    \/ ExistsCheck
    \/ CompressAndRemove

\* zip_path and chapter_dir have been built
PathsBuilt == spc \in {"built", "compress", "done"}

SpecPaths == PathsInit /\ [][PathsStep]_vars

\* the characters no file or directory name may hold
C20_Forbidden == {"/", ":", "*", "?", "\"", "<", ">", "|"}

\* safe is raw with every forbidden character replaced by an underscore and
\* every other character kept in place
C20_Replaced(raw, safe) ==
    /\ Len(safe) = Len(raw)
    /\ \A k \in 1..Len(raw) :
          safe[k] = IF raw[k] \in C20_Forbidden THEN "_" ELSE raw[k]

\* C20: sanitization replaces each of / : * ? " < > | by an underscore and
\* keeps every other character in place, its result holds none of them and
\* sanitizing it again changes nothing; download_chapter builds its paths
\* from the sanitized title and the sanitized chapter name only.
C20_SanitizedNamesInPaths ==
    /\ (spc = "chap_safe" \/ spc = "paths" \/ PathsBuilt) =>
          /\ C20_Replaced(comicTitle, bookSafe)
          /\ Sanitize(bookSafe) = bookSafe
    /\ (spc = "paths" \/ PathsBuilt) =>
          /\ C20_Replaced(chapterName, chapSafe)
          /\ Sanitize(chapSafe) = chapSafe
    /\ PathsBuilt =>
          /\ zipPath = <<OutputDir, bookSafe, chapSafe \o ZipSuffix>>
          /\ chapterDir = <<OutputDir, bookSafe, chapSafe>>
          /\ \A part \in {zipPath[2], zipPath[3], chapterDir[2], chapterDir[3]} :
                \A k \in 1..Len(part) : part[k] \notin C20_Forbidden
    /\ ~PathsBuilt => zipPath = <<>> /\ chapterDir = <<>>

\* the paths have been built from a title and a chapter name that both held
\* forbidden characters, the pipe among them
C20_Witness ==
    /\ spc = "built"
    /\ \E k \in 1..Len(comicTitle) : comicTitle[k] = "|"
    /\ \E k \in 1..Len(chapterName) : chapterName[k] = "|"
    /\ bookSafe # comicTitle
    /\ chapSafe # chapterName

\* C25: whatever the title and the chapter name, the staging directory is a
\* directory directly below the comic's directory, no archive path is it or
\* lies below it, and removing it leaves the archive just written and the
\* other chapter's archive in place.
C25_StagingDirIsOwnSubdirectory ==
    /\ PathsBuilt =>
          LET bookDir == Resolve(<<OutputDir, bookSafe>>)
              staging == Resolve(chapterDir)
          IN  /\ Len(staging) = Len(bookDir) + 1
              /\ Within(staging, bookDir)
              /\ ~Within(Resolve(zipPath), staging)
              /\ ~Within(Resolve(ZipPathOf(comicTitle, otherName)), staging)
    /\ (spc = "done" /\ ~skipped) =>
          /\ Resolve(zipPath) \in disk
          /\ "other" \in earlier => Resolve(ZipPathOf(comicTitle, otherName)) \in disk

\* C27: the archive path and the staging directory of a chapter differ from
\* those of the other chapter of the catalog, and a call that returns at
\* "already exists" does so because this chapter was archived earlier.
C27_DistinctChaptersDistinctPaths ==
    /\ PathsBuilt =>
          /\ zipPath # ZipPathOf(comicTitle, otherName)
          /\ chapterDir # <<OutputDir, Sanitize(comicTitle), Sanitize(otherName)>>
    /\ (spc = "done" /\ skipped) => "own" \in earlier

----------------------------------------------------------------------------
(* SpecUnpack: one call of unpack_packed(frame, a, c, data).               *)

\* the payload tokens of the model: the empty one (the key stands for
\* itself) and two words
Tokens == {<<>>, <<"e">>, <<"1">>}

\* the packed bodies of the model
Frames ==
    {<<"0">>,
     <<"(", "{", "0", ":", "1", "}", ")">>,
     <<"a", "_", "0", " ", "1", "0", ".", "1">>,
     <<"(", "{", "0", "}", ")", "(", "{", "1", "}", ")", "}", ")", "(", "{">>,
     <<"(", "{", "0", "}", ")", "\n", "(", "{", "1", "}", ")">>,
     <<"(", "{", "0", "\n", "}", ")">>}

RECURSIVE WordRun(_)
\* the length of the run of word characters s starts with
WordRun(s) == IF s = <<>> \/ ~IsWordChar(Head(s)) THEN 0 ELSE 1 + WordRun(Tail(s))

RECURSIVE ReplaceAll(_, _)
\* RE_WORD.replace_all(frame, |caps| dmap.get(key).cloned().unwrap_or(key))
ReplaceAll(s, d) ==
    IF s = <<>> THEN <<>>
    ELSE IF WordRun(s) = 0 THEN <<Head(s)>> \o ReplaceAll(Tail(s), d)
    ELSE LET word == SubSeq(s, 1, WordRun(s))
         IN  (IF word \in DOMAIN d THEN d[word] ELSE word)
                 \o ReplaceAll(SubSeq(s, WordRun(s) + 1, Len(s)), d)

\* the radixes of the model: the small ones, where keys get a second digit,
\* and those around the alphabet size
Radixes == (0..3) \cup {10} \cup ((AlphabetSize - 1)..MaxRadix)

\* what serde_json::from_str finds in the extracted span: a document whose
\* sl.e is a JSON value of that kind (Sl.e is a serde_json::Value, so every
\* kind deserializes), or no valid ChapterStruct
SlEKinds == {"string", "number", "null", "bool"}

JsonKinds == SlEKinds \cup {"invalid"}

\* the dictionary size check is off by one
SizeMismatchOffByOne(c, n) == c > n + 1

\* if c > data.len()
SizeMismatch(c, n) == c > n

\* "({" stands at position a of s
OpensAt(s, a) == a >= 1 /\ a + 1 <= Len(s) /\ s[a] = "(" /\ s[a + 1] = "{"

\* "})" stands at position b of s
ClosesAt(s, b) == b >= 1 /\ b + 1 <= Len(s) /\ s[b] = "}" /\ s[b + 1] = ")"

\* RE_JSON matches inside s, a text without a line break: s has "({" and,
\* after its brace, "})"
HasJson(s) ==
    \E a \in 1..Len(s), b \in 1..Len(s) :
        a + 1 < b /\ OpensAt(s, a) /\ ClosesAt(s, b)

\* the group of RE_JSON in s, a text without a line break that it matches:
\* the leading .* is greedy, so the group opens at the last "({" that has a
\* "})" after it, and its own .* is greedy, so it closes at the last "})"
GroupOfLine(s) ==
    LET a == CHOOSE x \in 1..Len(s) :
                 /\ OpensAt(s, x) /\ \E b \in (x + 2)..Len(s) : ClosesAt(s, b)
                 /\ \A y \in (x + 1)..Len(s) :
                       ~(OpensAt(s, y) /\ \E b \in (y + 2)..Len(s) : ClosesAt(s, b))
         z == CHOOSE b \in (a + 2)..Len(s) :
                 ClosesAt(s, b) /\ \A y \in (b + 1)..Len(s) : ~ClosesAt(s, y)
    IN  SubSeq(s, a + 1, z)

\* RE_JSON.captures(s).get(1): . does not match a line break, so a match lies
\* within one line, and the leftmost match is in the first line that has one
Capture(s) ==
    LET lines == SplitOn(s, "\n")
    IN  IF \A n \in 1..Len(lines) : ~HasJson(lines[n]) THEN NoText
        ELSE GroupOfLine(lines[CHOOSE n \in 1..Len(lines) :
                                  /\ HasJson(lines[n])
                                  /\ \A m \in 1..(n - 1) : ~HasJson(lines[m])])

UnpackInit ==
    /\ ChapterIdle
    /\ MainIdle
    /\ radix \in Radixes
    /\ dictSize \in 0..MaxDict
    /\ data \in SeqsUpTo(Tokens, MaxData)
    /\ frame \in Frames
    /\ json \in JsonKinds
    /\ upc = "start"
    /\ todo = 0
    /\ dmap = EmptyDir
    /\ js = NoText
    /\ json_str = NoText
    /\ result = NoResult

unpackInputs == <<radix, dictSize, data, frame, json>>

\* if c > data.len() { return Err(..) }
UnpackStart ==
    /\ upc = "start"
    /\ IF SizeMismatch(dictSize, Len(data))
       THEN /\ result' = UnpackErr("dictionary size mismatch", dictSize)
            /\ upc' = "done"
            /\ todo' = todo
       ELSE /\ todo' = dictSize
            /\ upc' = "dict"
            /\ result' = result
    /\ UNCHANGED <<unpackInputs, dmap, js, json_str>>
    /\ UNCHANGED <<chapterVars, mainVars>>

\* one turn of for i in (0..c).rev(): encode(i, a)?, then data[i] (which
\* panics when i is out of bounds) and dmap.insert
DictStep ==
    /\ upc = "dict"
    /\ todo > 0
    /\ LET e == Encode(todo - 1, radix)
       IN  CASE e.kind = "ok" /\ todo - 1 >= Len(data) ->
                  /\ upc' = "outofbounds"
                  /\ UNCHANGED <<dmap, todo, result>>
             [] e.kind = "ok" /\ todo - 1 < Len(data) ->
                  /\ dmap' = WithFile(dmap, e.key,
                                      IF data[todo] = <<>> THEN e.key ELSE data[todo])
                  /\ todo' = todo - 1
                  /\ UNCHANGED <<upc, result>>
             [] e.kind = "err" ->
                  /\ result' = UnpackErr("exceeds supported alphabet size", radix)
                  /\ upc' = "done"
                  /\ UNCHANGED <<dmap, todo>>
             [] e.kind = "panic" ->
                  /\ upc' = "panicked"
                  /\ UNCHANGED <<dmap, todo, result>>
             [] e.kind = "hang" ->
                  /\ upc' = "hung"
                  /\ UNCHANGED <<dmap, todo, result>>
    /\ UNCHANGED <<unpackInputs, js, json_str>>
    /\ UNCHANGED <<chapterVars, mainVars>>

\* let js = RE_WORD.replace_all(frame, ..).to_string()
Substitute ==
    /\ upc = "dict"
    /\ todo = 0
    /\ js' = ReplaceAll(frame, dmap)
    /\ upc' = "json"
    /\ UNCHANGED <<unpackInputs, todo, dmap, json_str, result>>
    /\ UNCHANGED <<chapterVars, mainVars>>

\* RE_JSON.captures(&js).ok_or_else(..)?; Ok(serde_json::from_str(json_str)?)
ExtractJson ==
    /\ upc = "json"
    /\ json_str' = Capture(js)
    /\ result' = IF Capture(js) = NoText
                  THEN UnpackErr("Could not find JSON data", 0)
                  ELSE IF json \in SlEKinds THEN UnpackOk(json)
                  ELSE UnpackErr("SerdeJson", 0)
    /\ upc' = "done"
    /\ UNCHANGED <<unpackInputs, todo, dmap, js>>
    /\ UNCHANGED <<chapterVars, mainVars>>

UnpackStep ==
    \/ UnpackStart
    \/ DictStep
    \/ Substitute
    \/ ExtractJson

SpecUnpack == UnpackInit /\ [][UnpackStep]_vars

UnpackEnded == upc \in {"done", "panicked", "hung", "outofbounds"}

\* C10 as claimed: with a radix above 62 and a dictionary_size of at least 1,
\* whatever the payload, unpack_packed fails with the error that names the
\* radix, and the body is never substituted.
C10_RadixErrorAlways ==
    (radix > AlphabetSize /\ dictSize >= 1) =>
        /\ js = NoText
        /\ UnpackEnded =>
              result = UnpackErr("exceeds supported alphabet size", radix)

\* C10 as amended: with a radix above 62 and a dictionary_size of at least 1,
\* unpack_packed fails with a structural error and the body is never
\* substituted; the error names the radix when the payload has at least
\* dictionary_size tokens, and is the size mismatch otherwise.
C10_RadixErrorUnlessSizeMismatch ==
    (radix > AlphabetSize /\ dictSize >= 1) =>
        /\ js = NoText
        /\ upc \in {"start", "dict", "done"}
        /\ upc = "dict" => todo = dictSize
        /\ upc = "done" => result =
              IF dictSize > Len(data)
              THEN UnpackErr("dictionary size mismatch", dictSize)
              ELSE UnpackErr("exceeds supported alphabet size", radix)

\* C11: when dictionary_size exceeds the number of payload tokens,
\* unpack_packed returns the structural error of the size check, and no
\* execution reads a payload index at or beyond length(data) while it builds
\* the dictionary.
C11_NoOutOfBoundsRead ==
    /\ upc # "outofbounds"
    /\ (upc = "dict" /\ todo > 0) => todo - 1 < Len(data)
    /\ dictSize > Len(data) =>
          /\ upc \in {"start", "done"}
          /\ dmap = EmptyDir
          /\ upc = "done" => result = UnpackErr("dictionary size mismatch", dictSize)

\* the call has failed on a dictionary_size one above a non-empty payload
C11_Witness ==
    /\ upc = "done"
    /\ Len(data) >= 1
    /\ dictSize = Len(data) + 1
    /\ result = UnpackErr("dictionary size mismatch", dictSize)

\* C12: unpack_packed returns an error, never a manifest, when the sl.e of
\* the extracted document is neither a string nor a number, as it does when
\* no parenthesized object is found or the span is not valid structured data.
C12_UnpackRejectsBadSlE ==
    (upc = "done" /\ js # NoText) =>
        /\ json_str = NoText => result = UnpackErr("Could not find JSON data", 0)
        /\ (json_str # NoText /\ json = "invalid") => result = UnpackErr("SerdeJson", 0)
        /\ (json_str # NoText /\ json \in SlEKinds \ {"string", "number"}) =>
              result.kind = "err"

\* the word characters: letters, digits and the underscore
C13_WordChars == {"_"} \cup {DIGITS[d] : d \in 1..Len(DIGITS)}

\* position p of s holds a word character
C13_IsWord(s, p) == p \in 1..Len(s) /\ s[p] \in C13_WordChars

\* the last position of the maximal run of word characters that starts at p
C13_RunEnd(s, p) ==
    CHOOSE q \in p..Len(s) :
        (\A r \in p..q : C13_IsWord(s, r)) /\ ~C13_IsWord(s, q + 1)

\* what position p of the body contributes to the result: a non-word
\* character itself, the first character of a maximal run the run's
\* dictionary value (or the run when it is no key), any other nothing
C13_Piece(s, d, p) ==
    IF ~C13_IsWord(s, p) THEN <<s[p]>>
    ELSE IF C13_IsWord(s, p - 1) THEN <<>>
    ELSE LET word == SubSeq(s, p, C13_RunEnd(s, p))
         IN  IF word \in DOMAIN d THEN d[word] ELSE word

RECURSIVE C13_Pieces(_, _, _)
C13_Pieces(s, d, p) ==
    IF p > Len(s) THEN <<>> ELSE C13_Piece(s, d, p) \o C13_Pieces(s, d, p + 1)

\* C13: the substituted text is the body with every maximal run of word
\* characters replaced as a whole by its dictionary value when the run is a
\* key and kept otherwise, in one pass, and every non-word character kept in
\* place.
C13_SubstitutionByMaximalRuns ==
    js # NoText => js = C13_Pieces(frame, dmap, 1)

\* a body with an underscore inside a word has been substituted and changed
C13_Witness ==
    /\ js # NoText
    /\ js # frame
    /\ \E p \in 1..Len(frame) : frame[p] = "_"

\* the call has failed with the error that names a radix above 62
C10_Witness ==
    /\ upc = "done"
    /\ radix > AlphabetSize
    /\ dictSize >= 1
    /\ result = UnpackErr("exceeds supported alphabet size", radix)

\* the dictionary loop has ended normally
C22_DictionaryBuilt ==
    \/ upc = "dict" /\ todo = 0
    \/ upc = "json"
    \/ upc = "done" /\ js # NoText

\* C22: with a radix from 2 to 62 and a dictionary_size within the payload,
\* the keys of the indices below dictionary_size are pairwise distinct: every
\* turn of the loop adds an entry, the finished dictionary has exactly
\* dictionary_size entries, and the entry of index k is data[k], or the key
\* itself when data[k] is empty.
C22_DistinctKeys ==
    (radix \in 2..AlphabetSize /\ dictSize <= Len(data)) =>
        /\ \A k1, k2 \in 0..(dictSize - 1) :
              k1 # k2 => Encode(k1, radix).key # Encode(k2, radix).key
        /\ upc = "dict" => Cardinality(DOMAIN dmap) = dictSize - todo
        /\ C22_DictionaryBuilt =>
              /\ Cardinality(DOMAIN dmap) = dictSize
              /\ \A k \in 0..(dictSize - 1) :
                    LET key == Encode(k, radix).key
                    IN  /\ key \in DOMAIN dmap
                        /\ dmap[key] = IF data[k + 1] = <<>> THEN key ELSE data[k + 1]

\* a dictionary with a two-digit key, an empty token and a non-empty one
C22_Witness ==
    /\ upc = "json"
    /\ radix = 2
    /\ dictSize = 3
    /\ <<"1", "0">> \in DOMAIN dmap
    /\ \E k \in 1..dictSize : data[k] = <<>>
    /\ \E k \in 1..dictSize : data[k] # <<>>

\* "({" at position a of s is followed by a "})"
C23_Opening(s, a) == OpensAt(s, a) /\ \E b \in (a + 2)..Len(s) : ClosesAt(s, b)

\* the span of C23: from the brace of the last "({" of the text that is
\* followed by a "})" to the last "}" of the text that a ")" follows
C23_LastExpression(s) ==
    LET a == CHOOSE x \in 1..Len(s) :
                 C23_Opening(s, x) /\ \A y \in (x + 1)..Len(s) : ~C23_Opening(s, y)
        z == CHOOSE b \in 1..Len(s) :
                 ClosesAt(s, b) /\ \A y \in (b + 1)..Len(s) : ~ClosesAt(s, y)
    IN  SubSeq(s, a + 1, z)

\* C23: the span unpack_packed extracts from a substituted text that holds a
\* parenthesized brace expression is the last such expression of the whole
\* text; a text that holds none gives the "could not find JSON" error.
C23_ExtractsLastExpression ==
    (upc = "done" /\ js # NoText) =>
        IF \E a \in 1..Len(js) : C23_Opening(js, a)
        THEN json_str = C23_LastExpression(js)
        ELSE json_str = NoText /\ result = UnpackErr("Could not find JSON data", 0)

\* C24: whatever the radix, zero and one included, a call with a
\* dictionary_size within the payload returns a manifest or an error: the
\* key encoding neither panics nor runs forever.
C24_UnpackAlwaysReturns ==
    dictSize <= Len(data) => upc \notin {"panicked", "hung", "outofbounds"}

----------------------------------------------------------------------------
(* Claims about download_chapter, checked under Spec.                      *)

Range(seq) == {seq[k] : k \in 1..Len(seq)}

Indices == 0..(Len(files) - 1)

PartNames == {name \in DOMAIN dir : IsPartName(name)}

\* what a run from an empty staging directory archives
CleanMembers == [k \in 1..Len(files) |-> [name |-> Dst(k - 1), src |-> files[k], bytes |-> BodyLen]]

\* the indices whose destination file was staged when the call started
Staged0 == {k \in Indices : Dst(k) \in DOMAIN dir0}

\* C1: a file exists at the final archive path only if it is a fully written
\* archive that holds every file of the manifest, whatever step the chapter's
\* processing is at and also after an error or a kill.
C1_ArchiveOnlyWhenComplete ==
    zip.exists =>
        /\ zip.complete
        /\ \A k \in Indices : \E m \in 1..Len(zip.members) :
              zip.members[m].name = Dst(k) /\ zip.members[m].bytes = BodyLen

\* C2: every file under a final destination name in the staging directory
\* holds a whole response body, and the staging directory holds at most one
\* .part file, at every step and after a kill.
C2_NoPartialFinalName ==
    /\ \A name \in DOMAIN dir \ PartNames :
          /\ dir[name].bytes = BodyLen
          /\ SortKey(name) \in Indices
          /\ dir[name].src = files[SortKey(name) + 1]
    /\ Cardinality(PartNames) <= 1

\* a killed process has left a finished page and an unfinished .part file
C2_Witness ==
    /\ pc = "killed"
    /\ \E k \in Indices : Dst(k) \in DOMAIN dir
    /\ \E name \in PartNames : dir[name].bytes < BodyLen

C5_LengthMismatch ==
    /\ pc = "rename" => (resp = NoLen \/ resp = dir[WritePath].bytes)
    /\ (pc = "done" /\ ret = Err("Incomplete download")) =>
          /\ resp # NoLen /\ resp # BodyLen
          /\ PartName(Dst(i)) \in DOMAIN dir
          /\ Dst(i) \notin DOMAIN dir

\* the incomplete-transfer error was returned for a page after the first
C5_Witness ==
    /\ pc = "done"
    /\ ret = Err("Incomplete download")
    /\ i >= 1

\* C6: whatever order read_dir lists the staging directory in, the archive's
\* members are in the order of the manifest's files: member k is the staged
\* file of files[k].
C6_ArchiveInManifestOrder ==
    /\ pc = "zip_write" =>
          [k \in 1..Len(zip.members) |-> zip.members[k].name] \o paths
              = [k \in 1..Len(files) |-> Dst(k - 1)]
    /\ zip.complete =>
          [k \in 1..Len(zip.members) |-> zip.members[k].name]
              = [k \in 1..Len(files) |-> Dst(k - 1)]

\* an archive of a manifest with the indices 9 and 10 is complete
C6_Witness ==
    /\ zip.complete
    /\ Len(files) >= 11
    /\ SortKey(zip.members[10].name) = 9
    /\ SortKey(zip.members[11].name) = 10

\* C8: when the archive path exists as download_chapter starts, the call
\* returns Ok, sends no request and changes nothing on disk.
C8_ExistingArchiveSkips ==
    [][(pc = "start" /\ zip.exists) =>
          /\ fsVars' = fsVars
          /\ requests' = <<>> /\ pageReqs' = 0
          /\ pc' \in {"done", "killed"}
          /\ pc' = "done" => ret' = Ok("skipped")]_vars

\* a call has returned because the archive was there
C8_Witness ==
    /\ pc = "done"
    /\ ret = Ok("skipped")
    /\ zip.exists

\* C9 as claimed: every file, downloaded or skipped, is followed by a sleep
\* before the next file is processed.
C9_SleepAfterEveryFile ==
    pc = "loop" => \A j \in 0..(i - 1) : j \in sleptAfter

\* C9 as amended: a file that was downloaded is followed by a sleep of d with
\* delay/2 <= d <= delay*3/2 before the next file is processed; a skipped
\* file is followed by none.
C9_SleepAfterEveryDownload ==
    /\ pc = "loop" =>
          /\ \A j \in 0..(i - 1) : j \in sleptAfter <=> j \in Range(requests)
          /\ i >= 1 => ((i - 1) \in Range(requests) <=> lastSleep # NoSleep)
    /\ lastSleep # NoSleep => (delay <= 2 * lastSleep /\ 2 * lastSleep <= 3 * delay)

\* a call has skipped one file and slept after downloading another
C9_Witness ==
    /\ pc = "loop"
    /\ delay > 0
    /\ lastSleep # NoSleep
    /\ \E j \in 0..(i - 1) : j \notin sleptAfter

C26_SuccessfulRunLeavesCleanArchive ==
    (pc = "done" /\ ret.kind = "ok") =>
        zip = [exists |-> TRUE, complete |-> TRUE, members |-> CleanMembers]

\* C28: no step of download_chapter changes or removes a page file that
\* stands under its final name in the staging directory, and none removes
\* the directory, except the removal that follows a completely written
\* archive; so a call that fails at an image leaves the directory and the
\* completed pages as they were.
C28_FailureKeepsStagedPages ==
    [][/\ \A name \in DOMAIN dir \ PartNames :
             \/ dirExists' /\ name \in DOMAIN dir' /\ dir'[name] = dir[name]
             \/ pc = "remove_dir" /\ zip.exists /\ zip.complete
       /\ (dirExists /\ ~dirExists') =>
             pc = "remove_dir" /\ zip.exists /\ zip.complete
       /\ (pc \in {"loop", "create_part", "copy", "rename"}
             /\ pc' = "done" /\ ret'.kind = "err") =>
             dirExists /\ dirExists']_vars

\* a call has failed at a later image with an earlier page completed and
\* still staged
C28_Witness ==
    /\ pc = "done"
    /\ ret.kind = "err"
    /\ ~zip.exists
    /\ dirExists
    /\ requests # <<>>
    /\ requests[Len(requests)] >= 1
    /\ Dst(requests[Len(requests)]) \notin DOMAIN dir
    /\ \A k \in 0..(requests[Len(requests)] - 1) :
          Dst(k) \in DOMAIN dir /\ dir[Dst(k)].bytes = BodyLen

----------------------------------------------------------------------------
(* Claims about prompt_for_chapters, checked under SpecPrompt.             *)

\* C17: the list prompt_for_chapters returns is strictly ascending, every
\* index is below the catalog size, and it holds exactly n - 1 for the
\* one-based chapter numbers n of the accepted line; "1-3,5" gives
\* [0,1,2,4] and "5,3-4,3" gives [2,3,4] for a catalog of 10.
C17_SelectionOfAcceptedLine ==
    ppc = "returned" =>
        /\ \A k \in 1..(Len(indices) - 1) : indices[k] < indices[k + 1]
        /\ \A k \in 1..Len(indices) : indices[k] < chaptersCount
        /\ Range(indices) = {n - 1 : n \in {m \in Range(RangeParse(input).nums) : m >= 1}}
        /\ (input = Line_1to3_5 /\ chaptersCount = TestCatalogSize) => indices = <<0, 1, 2, 4>>
        /\ (input = Line_5_3to4_3 /\ chaptersCount = TestCatalogSize) => indices = <<2, 3, 4>>

\* "5,3-4,3" has been accepted for a catalog of 10 after a rejected line
C17_Witness ==
    /\ ppc = "returned"
    /\ reads = 2
    /\ input = Line_5_3to4_3
    /\ indices = <<2, 3, 4>>

\* the line is well formed and all its numbers are chapter numbers
C18_ValidLine(line, count) ==
    /\ RangeParse(line).ok
    /\ \A n \in Range(RangeParse(line).nums) : 1 <= n /\ n <= count

\* C18: a line that is malformed or holds a number outside 1..N, 0 and
\* numbers mixed with valid ones included, is rejected: nothing is returned
\* for it and the prompt is issued again.
C18_InvalidLineReprompts ==
    [][(ppc = "read" /\ ~C18_ValidLine(input, chaptersCount)) =>
          (ppc' = "prompt" /\ indices' = <<>>)]_vars

====
